---- MODULE Spec2Model ----
(***************************************************************************)
(* shiftmanager: the chunked JSON load (Shift.chunk_json_slices,           *)
(* Shift.copy_json_to_table) and the table rebuild                         *)
(* (TableDefinitionStatement) as one state machine.                        *)
(*                                                                         *)
(* Conventions.  Python's None is the empty tuple <<>> and a present value *)
(* v is <<v>> where the two must share a type; "" is the absence of an     *)
(* in-flight exception.  A local file path "<stamp>-<i>.gz" is its index i *)
(* and an S3 key is <<kind, i>>.  Every blocking call of the code that     *)
(* touches the disk, the bucket or the database either returns or raises:  *)
(* the outcome is drawn with \E.                                           *)
(***************************************************************************)
EXTENDS Integers, Sequences, FiniteSets, Bags, TLC

\* Largest number of records handed to copy_json_to_table.
MaxRecords == 4
\* Largest number of slices (the code's default is 32).
MaxSlices == 3

VARIABLES
    pc,              \* position of the single flow of control
    num_data,        \* len(data); data is <<1, ..., num_data>>
    slices,          \* the slices argument
    clean_up_s3,     \* copy_json_to_table argument
    clean_up_local,  \* copy_json_to_table argument, clean_on_exit of the chunker
    jsonpaths,       \* copy_json_to_table argument: <<>> is None, <<paths>> a dict
    chunk_range_start,
    chunk_range_end,
    chunk_files_bound, \* whether the local name chunk_files is assigned yet
    chunk_files,     \* paths appended at redshift.py:168
    disk,            \* path -> content of every chunk file present on disk
    rm_idx,          \* position of the removal loop of the finally block
    up_idx,          \* position of the upload loop over file_paths
    s3_sweep,        \* keys to clean up
    bucket,          \* key -> content of every object present in the bucket
    manifest,        \* manifest["entries"]
    exc,             \* exception in flight ("" when none)
    raised,          \* every exception raised in the run, in order
    events,          \* history of the external effects, in order
    args,            \* the arguments and catalog answers of the constructor call
    tds,             \* the TableDefinitionStatement object (or its absence)
    script,          \* the script returned by definition(), as statements
    sp,              \* index of the next statement of the script to execute
    db,              \* the database session executing the script
    db0              \* the database as it was before the script

loadVars == <<num_data, slices, clean_up_s3, clean_up_local, jsonpaths,
              chunk_range_start, chunk_range_end, chunk_files_bound,
              chunk_files, disk, rm_idx, up_idx, s3_sweep, bucket, manifest,
              exc, raised, events>>
rebuildVars == <<args, tds, script, sp, db, db0>>
vars == <<pc, loadVars, rebuildVars>>

None == <<>>
Some(v) == <<v>>

Min(a, b) == IF a < b THEN a ELSE b

\* data is the list of the record indices 1..n, so a chunk's content shows
\* which records it holds.
Data(n) == [i \in 1..n |-> i]

\* util.linspace(start, stop, num): num evenly spaced cut points, the i-th
\* (from 0) being floor(start + i * (stop - start) / num).
linspace(start, stop, num) ==
    [i \in 1..num |-> start + (((i - 1) * (stop - start)) \div num)]

\* chunk_range_end = chunk_range_start[1:]; chunk_range_end.append(None)
ChunkRangeEndNoSentinel(starts) ==
    [i \in 1..(Len(starts) - 1) |-> Some(starts[i + 1])]
ChunkRangeEnd(starts) ==
    [i \in 1..Len(starts) |->
        IF i < Len(starts) THEN Some(starts[i + 1]) ELSE None]

\* list(zip(chunk_range_start, chunk_range_end)): as long as the shorter.
range_zipper(starts, ends) ==
    [i \in 1..Min(Len(starts), Len(ends)) |->
        [inclusive |-> starts[i], exclusive |-> ends[i]]]

\* data[inclusive:exclusive] and data[inclusive:] for 0 <= inclusive.
PySlice(data, inclusive, exclusive) ==
    IF exclusive = None
    THEN SubSeq(data, inclusive + 1, Len(data))
    ELSE SubSeq(data, inclusive + 1, Min(exclusive[1], Len(data)))

\* The newline-joined payload of one chunk: one document per record.
sliced(data, pair) == PySlice(data, pair.inclusive, pair.exclusive)

\* Function f extended or overwritten at k; f without k.
Put(f, k, v) == [x \in (DOMAIN f) \cup {k} |-> IF x = k THEN v ELSE f[x]]
Drop(f, ks) == [x \in (DOMAIN f) \ ks |-> f[x]]
EmptyMap == [x \in {} |-> 0]

Range(s) == {s[i] : i \in DOMAIN s}

NoKey == <<"", 0>>
Event(e, k) == [ev |-> e, key |-> k]

\* os.path.join(keypath, filename) of chunk i, and the two metadata keys.
data_keypath(i) == <<"gz", i>>
kpath(ext) == <<ext, 0>>

\* The field paths of the documents, and their place in the order of
\* list.sort() on strings.
PathRank(path) == IF path = "$['a']" THEN 1 ELSE 2

\* util.recur_dict(set(), parsed): the set of the field paths of a document;
\* every record of data has the fields b and a.
recur_dict(json_doc) == {"$['b']", "$['a']"}

\* list(paths_set) followed by paths_list.sort().
sorted_list(paths_set) ==
    CHOOSE l \in [1..Cardinality(paths_set) -> paths_set] :
        \A i, j \in DOMAIN l : i < j => PathRank(l[i]) < PathRank(l[j])

\* Shift.gen_jsonpaths(json_doc): the dict {"jsonpaths": paths_list}.
gen_jsonpaths(json_doc) == Some(sorted_list(recur_dict(json_doc)))

\* A jsonpaths dict written by the caller, in the caller's order.
CallerJsonpaths == Some(<<"$['b']", "$['a']">>)

(***************************************************************************)
(* The load: Shift.copy_json_to_table and Shift.chunk_json_slices.         *)
(***************************************************************************)

\* An exception e is raised: it replaces the one in flight, if any.
Raise(e) ==
    /\ exc' = e
    /\ raised' = Append(raised, e)

NoRaise == UNCHANGED <<exc, raised>>

\* The first exception of the run, the one the later ones replace.
OrigExc == IF raised = <<>> THEN "" ELSE raised[1]

\* When the finally block of chunk_json_slices removes the chunk files: on
\* every exit, with or without an exception e in flight.
RunsLocalCleanupOnSuccessOnly(clean_on_exit, e) == clean_on_exit /\ e = ""
RunsLocalCleanup(clean_on_exit, e) == clean_on_exit

\* When the finally block of copy_json_to_table deletes the swept keys.
RunsS3CleanupOnSuccessOnly(flag, e) == flag /\ e = ""
RunsS3Cleanup(flag, e) == flag

\* The manifest after one pass of the upload loop: the entry is appended
\* after set_contents_from_file returned.
manifest_entry(key) == [url |-> key, mandatory |-> TRUE]
ManifestAfterUploadEager(entries, key, uploaded) ==
    Append(entries, manifest_entry(key))
ManifestAfterUpload(entries, key, uploaded) ==
    IF uploaded THEN Append(entries, manifest_entry(key)) ELSE entries

\* The sweep list after one pass of the upload loop: the key is appended
\* before the file is opened and sent.
SweepAfterUpload(sweep, key, uploaded) == Append(sweep, key)

\* Where control goes when the with block of copy_json_to_table is left:
\* to the COPY statement after it, but with an exception e in flight to the
\* finally block.
AfterWithAlwaysCopy(e) == "copy"
AfterWith(e) == IF e = "" THEN "copy" ELSE "s3_finally"

\* copy_json_to_table(bucket, keypath, data, jsonpaths, table, slices,
\* clean_up_s3, local_path, clean_up_local) up to the try statement.
copy_json_to_table ==
    /\ pc = "idle"
    /\ \E n \in 0..MaxRecords, s \in 1..MaxSlices, cs3 \in BOOLEAN,
          cl \in BOOLEAN, jp \in {None, CallerJsonpaths}, got \in BOOLEAN :
        /\ num_data' = n
        /\ slices' = s
        /\ clean_up_s3' = cs3
        /\ clean_up_local' = cl
        /\ jsonpaths' = jp
        /\ IF got
           THEN pc' = "cjs_measure" /\ NoRaise
           ELSE pc' = "raised" /\ Raise("get_bucket")
    /\ UNCHANGED <<chunk_range_start, chunk_range_end, chunk_files_bound,
                   chunk_files, disk, rm_idx, up_idx, s3_sweep, bucket,
                   manifest, events, rebuildVars>>

\* chunk_json_slices: len(data), linspace and the two range lists.
ChunkMeasure ==
    /\ pc = "cjs_measure"
    /\ \/ /\ chunk_range_start' = linspace(0, num_data, slices)
          /\ chunk_range_end' = ChunkRangeEnd(chunk_range_start')
          /\ pc' = "cjs_mkdir"
          /\ NoRaise
       \/ /\ Raise("measure")
          /\ pc' = "cjs_finally"
          /\ UNCHANGED <<chunk_range_start, chunk_range_end>>
    /\ UNCHANGED <<num_data, slices, clean_up_s3, clean_up_local, jsonpaths,
                   chunk_files_bound, chunk_files, disk, rm_idx, up_idx,
                   s3_sweep, bucket, manifest, events, rebuildVars>>

\* chunk_json_slices: the staging directory, then chunk_files = [].
ChunkMkdir ==
    /\ pc = "cjs_mkdir"
    /\ \/ /\ chunk_files_bound' = TRUE
          /\ chunk_files' = <<>>
          /\ pc' = "cjs_stage"
          /\ NoRaise
       \/ /\ Raise("mkdir")
          /\ pc' = "cjs_finally"
          /\ UNCHANGED <<chunk_files_bound, chunk_files>>
    /\ UNCHANGED <<num_data, slices, clean_up_s3, clean_up_local, jsonpaths,
                   chunk_range_start, chunk_range_end, disk, rm_idx, up_idx,
                   s3_sweep, bucket, manifest, events, rebuildVars>>

\* chunk_json_slices: one pass of the loop over range_zipper. gzip.open
\* creates the file; the path is appended only after close() returned.
StageChunk ==
    /\ pc = "cjs_stage"
    /\ LET zipper == range_zipper(chunk_range_start, chunk_range_end)
           i == Len(chunk_files)
       IN /\ i < Len(zipper)
          /\ LET newlined == sliced(Data(num_data), zipper[i + 1])
             IN \/ /\ Raise("stage_open")
                   /\ pc' = "cjs_finally"
                   /\ UNCHANGED <<disk, chunk_files>>
                \/ /\ disk' = Put(disk, i, <<>>)
                   /\ Raise("stage_write")
                   /\ pc' = "cjs_finally"
                   /\ UNCHANGED chunk_files
                \/ /\ disk' = Put(disk, i, newlined)
                   /\ Raise("stage_close")
                   /\ pc' = "cjs_finally"
                   /\ UNCHANGED chunk_files
                \/ /\ disk' = Put(disk, i, newlined)
                   /\ chunk_files' = Append(chunk_files, i)
                   /\ pc' = "cjs_stage"
                   /\ NoRaise
    /\ UNCHANGED <<num_data, slices, clean_up_s3, clean_up_local, jsonpaths,
                   chunk_range_start, chunk_range_end, chunk_files_bound,
                   rm_idx, up_idx, s3_sweep, bucket, manifest, events,
                   rebuildVars>>

\* chunk_json_slices: yield stamp, chunk_files; the with block of
\* copy_json_to_table starts with manifest = {"entries": []}.
ChunkYield ==
    /\ pc = "cjs_stage"
    /\ Len(chunk_files) =
           Len(range_zipper(chunk_range_start, chunk_range_end))
    /\ manifest' = <<>>
    /\ up_idx' = 0
    /\ pc' = IF Len(chunk_files) = 0 THEN "manifest" ELSE "upload"
    /\ UNCHANGED <<num_data, slices, clean_up_s3, clean_up_local, jsonpaths,
                   chunk_range_start, chunk_range_end, chunk_files_bound,
                   chunk_files, disk, rm_idx, s3_sweep, bucket, exc,
                   raised, events, rebuildVars>>

\* copy_json_to_table: one pass of the loop over file_paths.
UploadChunk ==
    /\ pc = "upload"
    /\ up_idx < Len(chunk_files)
    /\ LET path == chunk_files[up_idx + 1]
           key == data_keypath(path)
       IN \/ /\ s3_sweep' = SweepAfterUpload(s3_sweep, key, FALSE)
             /\ manifest' = ManifestAfterUpload(manifest, key, FALSE)
             /\ \/ Raise("upload_open")
                \/ Raise("upload")
             /\ pc' = "cjs_finally"
             /\ UNCHANGED <<bucket, up_idx, events>>
          \/ /\ s3_sweep' = SweepAfterUpload(s3_sweep, key, TRUE)
             /\ bucket' = Put(bucket, key, disk[path])
             /\ manifest' = ManifestAfterUpload(manifest, key, TRUE)
             /\ events' = Append(events, Event("put", key))
             /\ up_idx' = up_idx + 1
             /\ pc' = IF up_idx + 1 = Len(chunk_files)
                      THEN "manifest" ELSE "upload"
             /\ NoRaise
    /\ UNCHANGED <<num_data, slices, clean_up_s3, clean_up_local, jsonpaths,
                   chunk_range_start, chunk_range_end, chunk_files_bound,
                   chunk_files, disk, rm_idx, rebuildVars>>

\* single_dict_write(ext, single_data): the key is swept after the write.
single_dict_write(ext, single_data, next) ==
    /\ \/ /\ bucket' = Put(bucket, kpath(ext), single_data)
          /\ s3_sweep' = Append(s3_sweep, kpath(ext))
          /\ events' = Append(events, Event("put", kpath(ext)))
          /\ pc' = next
          /\ NoRaise
       \/ /\ Raise(ext)
          /\ pc' = "cjs_finally"
          /\ UNCHANGED <<bucket, s3_sweep, events>>
    /\ UNCHANGED <<num_data, slices, clean_up_s3, clean_up_local, jsonpaths,
                   chunk_range_start, chunk_range_end, chunk_files_bound,
                   chunk_files, disk, rm_idx, up_idx, manifest, rebuildVars>>

WriteManifest ==
    /\ pc = "manifest"
    /\ single_dict_write("manifest", manifest, "jsonpaths")

\* The jsonpaths argument is written as it was passed; leaving the with
\* block resumes the generator, which runs its finally block.
WriteJsonpaths ==
    /\ pc = "jsonpaths"
    /\ single_dict_write("jsonpaths", jsonpaths, "cjs_finally")

\* chunk_json_slices: the finally block is entered.
ChunkFinally ==
    /\ pc = "cjs_finally"
    /\ IF ~RunsLocalCleanup(clean_up_local, exc)
       THEN pc' = AfterWith(exc) /\ NoRaise /\ UNCHANGED rm_idx
       ELSE IF ~chunk_files_bound
            THEN /\ Raise("UnboundLocalError")
                 /\ pc' = "s3_finally"
                 /\ UNCHANGED rm_idx
            ELSE pc' = "cjs_remove" /\ rm_idx' = 0 /\ NoRaise
    /\ UNCHANGED <<num_data, slices, clean_up_s3, clean_up_local, jsonpaths,
                   chunk_range_start, chunk_range_end, chunk_files_bound,
                   chunk_files, disk, up_idx, s3_sweep, bucket, manifest,
                   events, rebuildVars>>

\* chunk_json_slices: os.remove(filepath) for the next path of chunk_files;
\* an error of os.remove leaves the loop and replaces the one in flight.
RemoveChunkFile ==
    /\ pc = "cjs_remove"
    /\ rm_idx < Len(chunk_files)
    /\ \/ /\ disk' = Drop(disk, {chunk_files[rm_idx + 1]})
          /\ rm_idx' = rm_idx + 1
          /\ pc' = "cjs_remove"
          /\ NoRaise
       \/ /\ Raise("remove")
          /\ pc' = "s3_finally"
          /\ UNCHANGED <<disk, rm_idx>>
    /\ UNCHANGED <<num_data, slices, clean_up_s3, clean_up_local, jsonpaths,
                   chunk_range_start, chunk_range_end, chunk_files_bound,
                   chunk_files, up_idx, s3_sweep, bucket, manifest, events,
                   rebuildVars>>

\* chunk_json_slices: the removal loop is over; the exception in flight, if
\* any, goes on to copy_json_to_table.
ChunkExit ==
    /\ pc = "cjs_remove"
    /\ rm_idx = Len(chunk_files)
    /\ pc' = AfterWith(exc)
    /\ UNCHANGED <<loadVars, rebuildVars>>

\* _execute_and_commit(statement): cur.execute, then conn.commit.
execute_and_commit ==
    /\ pc = "copy"
    /\ \/ /\ Raise("execute")
          /\ UNCHANGED events
       \/ /\ Raise("commit")
          /\ events' = Append(events, Event("copy", NoKey))
       \/ /\ NoRaise
          /\ events' = Append(Append(events, Event("copy", NoKey)),
                              Event("commit", NoKey))
    /\ pc' = "s3_finally"
    /\ UNCHANGED <<num_data, slices, clean_up_s3, clean_up_local, jsonpaths,
                   chunk_range_start, chunk_range_end, chunk_files_bound,
                   chunk_files, disk, rm_idx, up_idx, s3_sweep, bucket,
                   manifest, rebuildVars>>

\* copy_json_to_table: the finally block; then the call returns or raises.
S3Finally ==
    /\ pc = "s3_finally"
    /\ IF RunsS3Cleanup(clean_up_s3, exc)
       THEN \/ /\ bucket' = Drop(bucket, Range(s3_sweep))
               /\ events' = Append(events, Event("delete_keys", NoKey))
               /\ NoRaise
            \/ /\ Raise("delete_keys")
               /\ UNCHANGED <<bucket, events>>
       ELSE NoRaise /\ UNCHANGED <<bucket, events>>
    /\ pc' = IF exc' = "" THEN "returned" ELSE "raised"
    /\ UNCHANGED <<num_data, slices, clean_up_s3, clean_up_local, jsonpaths,
                   chunk_range_start, chunk_range_end, chunk_files_bound,
                   chunk_files, disk, rm_idx, up_idx, s3_sweep, manifest,
                   rebuildVars>>

LoadNext ==
    \/ copy_json_to_table
    \/ ChunkMeasure
    \/ ChunkMkdir
    \/ StageChunk
    \/ ChunkYield
    \/ UploadChunk
    \/ WriteManifest
    \/ WriteJsonpaths
    \/ ChunkFinally
    \/ RemoveChunkFile
    \/ ChunkExit
    \/ execute_and_commit
    \/ S3Finally

(***************************************************************************)
(* The rebuild: TableDefinitionStatement of src/shiftmanager/redshift.py   *)
(* ("redshift") and of src/shiftmanager.py ("legacy").  A str-or-None      *)
(* value is None or Some(string); a table name is <<prefix, name>>.        *)
(***************************************************************************)

\* Largest number of rows of the table being rebuilt.
MaxRows == 2

Impls == {"redshift", "legacy"}

\* Python truthiness of a str-or-None value, and x or y, x and y.
Truthy(x) == x # None /\ x # Some("")
PyOr(x, y) == IF Truthy(x) THEN x ELSE y

\* str.upper() on the distribution style names.
Upper(str) ==
    CASE str = "even" -> "EVEN"
      [] str = "key" -> "KEY"
      [] str = "all" -> "ALL"
      [] OTHER -> str

\* DISTSTYLES_BY_INDEX[code]: None stands for the KeyError.
DISTSTYLES_BY_INDEX(code) ==
    CASE code = 0 -> Some("EVEN")
      [] code = 1 -> Some("KEY")
      [] code = 8 -> Some("ALL")
      [] OTHER -> None

\* One line of the pg_dump output: the prefix the code tests with
\* startswith, the table it names and the role or column it names.
Line(prefix, table, who) == [prefix |-> prefix, table |-> table, who |-> who]

StartsWith(line, prefix) ==
    \/ line.prefix = prefix
    \/ prefix = "ALTER TABLE " /\ line.prefix = "ALTER TABLE ONLY"

\* pg_dump --schema-only --table t of a table that exists, of one that does
\* not, and an output cut before the closing line.
DumpOfTable(t) ==
    << Line("SET ", "", "search_path"),
       Line("CREATE TABLE ", t, ""),
       Line("    ", "", "id"),
       Line("    ", "", "ts"),
       Line(");", "", ""),
       Line("ALTER TABLE ", t, "alice"),
       Line("ALTER TABLE ONLY", t, ""),
       Line("REVOKE ", t, "PUBLIC"),
       Line("GRANT ", t, "alice"),
       Line("", "", "") >>
DumpOfNothing == << Line("SET ", "", "search_path"), Line("", "", "") >>
DumpUnclosed(t) ==
    << Line("SET ", "", "search_path"),
       Line("CREATE TABLE ", t, ""),
       Line("    ", "", "id") >>
Dumps(t) == {DumpOfTable(t), DumpOfNothing, DumpUnclosed(t)}

\* self.grants
grants_of(lines) ==
    LET P(l) == StartsWith(l, "REVOKE ") \/ StartsWith(l, "GRANT ")
    IN SelectSeq(lines, P)

\* self.alters: redshift.py leaves the ALTER TABLE ONLY lines out.
alters_of(impl, lines) ==
    LET P(l) == /\ StartsWith(l, "ALTER TABLE ")
                /\ impl = "redshift" => ~StartsWith(l, "ALTER TABLE ONLY")
    IN SelectSeq(lines, P)

\* The statements appended for a new owner.
OwnerAlter(tablename, owner) == Line("ALTER TABLE ", tablename, owner)
OwnerGrant(tablename, owner) == Line("GRANT ", tablename, owner)

\* [i for i, line in enumerate(lines) if ...]: the 1-based indices.
create_start_indices(lines) ==
    {i \in DOMAIN lines : StartsWith(lines[i], "CREATE TABLE ")}
create_end_indices(lines, start) ==
    {i \in DOMAIN lines : i > start /\ StartsWith(lines[i], ");")}
SetMin(S) == CHOOSE x \in S : \A y \in S : x <= y

\* result and result[0][0] or None, for result = cur.fetchall()
FirstColumn(result) == IF result = <<>> THEN None ELSE Some(result[1])

\* self.distkey = distkey or result and result[0][0] or None
init_key(key, result) == PyOr(PyOr(key, FirstColumn(result)), None)

\* if distkey and not diststyle: self.diststyle = 'KEY'
style_ruleNoDefault(distkey, diststyle, current) == current
style_rule(distkey, diststyle, current) ==
    IF Truthy(distkey) /\ ~Truthy(diststyle) THEN "KEY" ELSE current

\* if self.diststyle.upper() in ['ALL', 'EVEN']: self.distkey = None
key_ruleNoUpper(style, key) ==
    IF style \in {"ALL", "EVEN"} THEN None ELSE key
key_rule(style, key) ==
    IF Upper(style) \in {"ALL", "EVEN"} THEN None ELSE key

NoObject == [tablename |-> "", impl |-> "", grants |-> <<>>, alters |-> <<>>,
             sets |-> <<>>, create_lines |-> <<>>, distkey |-> None,
             sortkey |-> None, diststyle |-> ""]

\* TableDefinitionStatement.__init__: the object, or the exception raised.
\* a is the call: impl, tablename, distkey, sortkey, diststyle, owner, and
\* what pg_dump (dump, None when check_output raises) and the three catalog
\* queries (cat_distkey, cat_sortkey: fetchall(); cat_style: fetchone(),
\* None when no row) answer.
TableDefinitionStatement_init(a) ==
    LET lines == a.dump[1]
        P(l) == StartsWith(l, "SET ")
        sets == SelectSeq(lines, P)
        grants0 == grants_of(lines)
        alters0 == alters_of(a.impl, lines)
        alters == IF Truthy(a.owner)
                  THEN Append(alters0, OwnerAlter(a.tablename, a.owner[1]))
                  ELSE alters0
        grants == IF Truthy(a.owner)
                  THEN Append(grants0, OwnerGrant(a.tablename, a.owner[1]))
                  ELSE grants0
        starts == create_start_indices(lines)
        start == SetMin(starts)
        ends == create_end_indices(lines, start)
        end == SetMin(ends)
        distkey0 == init_key(a.distkey, a.cat_distkey)
        sortkey0 == init_key(a.sortkey, a.cat_sortkey)
        looked == IF a.cat_style = None THEN None
                  ELSE DISTSTYLES_BY_INDEX(a.cat_style[1])
        style0 == IF Truthy(a.diststyle) THEN a.diststyle[1] ELSE looked[1]
        style == style_rule(a.distkey, a.diststyle, style0)
        Fail(e) == [err |-> e, obj |-> NoObject]
    IN IF a.dump = None THEN Fail("CalledProcessError")
       ELSE IF starts = {} THEN Fail("IndexError")
       ELSE IF ends = {} THEN Fail("IndexError")
       ELSE IF ~Truthy(a.diststyle) /\ a.cat_style = None
            THEN Fail("TypeError")
       ELSE IF ~Truthy(a.diststyle) /\ looked = None THEN Fail("KeyError")
       ELSE [err |-> "",
             obj |-> [tablename |-> a.tablename,
                      impl |-> a.impl,
                      grants |-> grants,
                      alters |-> alters,
                      sets |-> sets,
                      create_lines |-> SubSeq(lines, start, end - 1),
                      distkey |-> key_rule(style, distkey0),
                      sortkey |-> sortkey0,
                      diststyle |-> style]]

\* A table name: the original one and the two temporary ones of definition().
Name(prefix, t) == <<prefix, t>>
NoName == Name("", "")
oldtmp(impl, t) ==
    IF impl = "redshift" THEN Name("temp_old_", t) ELSE Name("tempsource_", t)
newtmp(impl, t) ==
    IF impl = "redshift" THEN Name("temp_new_", t) ELSE Name("temptarget_", t)

\* One statement of the script. clauses are the lines appended to the
\* CREATE TABLE block, in order; cols its column lines.
Stmt(op, t1, t2, who, cols, clauses) ==
    [op |-> op, t1 |-> t1, t2 |-> t2, who |-> who, cols |-> cols,
     clauses |-> clauses]
Simple(op, t1, t2) == Stmt(op, t1, t2, "", <<>>, <<>>)
Clause(kw, v) == [kw |-> kw, v |-> v]

\* The statement a captured ALTER TABLE, GRANT or REVOKE line is.
LineStmt(l) ==
    Stmt(CASE l.prefix = "ALTER TABLE " -> "ALTER OWNER"
           [] l.prefix = "ALTER TABLE ONLY" -> "ALTER ONLY"
           [] l.prefix = "GRANT " -> "GRANT"
           [] l.prefix = "REVOKE " -> "REVOKE"
           [] OTHER -> "OTHER",
         Name("", l.table), NoName, l.who, <<>>, <<>>)
LineStmts(ls) == [i \in DOMAIN ls |-> LineStmt(ls[i])]

\* create_lines of definition(): the first line with the table name
\* replaced by the new temporary name, then DISTSTYLE and the optional
\* DISTKEY and SORTKEY lines.
create_statement(o) ==
    LET first == o.create_lines[1]
        target == IF first.table = o.tablename
                  THEN newtmp(o.impl, o.tablename)
                  ELSE Name("", first.table)
        cols == [i \in 1..(Len(o.create_lines) - 1) |->
                    o.create_lines[i + 1].who]
        c1 == << Clause("DISTSTYLE", o.diststyle) >>
        c2 == IF Truthy(o.distkey)
              THEN Append(c1, Clause("DISTKEY", o.distkey[1])) ELSE c1
        c3 == IF Truthy(o.sortkey)
              THEN Append(c2, Clause("SORTKEY", o.sortkey[1])) ELSE c2
    IN Stmt("CREATE", target, NoName, "", cols, c3)

\* INSERT INTO {newtmp} (SELECT * FROM {oldtmp});
insert_statement(o) ==
    Simple("INSERT SELECT", newtmp(o.impl, o.tablename),
           oldtmp(o.impl, o.tablename))

\* TableDefinitionStatement.definition() of redshift.py.
definition_redshiftNoCopy(o) ==
    LET t == Name("", o.tablename)
    IN << Simple("SET search_path", NoName, NoName),
          Simple("RENAME", t, oldtmp(o.impl, o.tablename)),
          create_statement(o),
          Simple("RENAME", newtmp(o.impl, o.tablename), t),
          Simple("DROP", oldtmp(o.impl, o.tablename), NoName) >>
       \o LineStmts(o.alters) \o LineStmts(o.grants)
definition_redshift(o) ==
    LET t == Name("", o.tablename)
    IN << Simple("SET search_path", NoName, NoName),
          Simple("RENAME", t, oldtmp(o.impl, o.tablename)),
          create_statement(o),
          insert_statement(o),
          Simple("RENAME", newtmp(o.impl, o.tablename), t),
          Simple("DROP", oldtmp(o.impl, o.tablename), NoName) >>
       \o LineStmts(o.alters) \o LineStmts(o.grants)

\* TableDefinitionStatement.definition() of shiftmanager.py.
definition_legacy(o) ==
    LET t == Name("", o.tablename)
    IN << Simple("BEGIN", NoName, NoName),
          create_statement(o),
          Simple("RENAME", t, oldtmp(o.impl, o.tablename)),
          insert_statement(o),
          Simple("RENAME", newtmp(o.impl, o.tablename), t),
          Simple("DROP", oldtmp(o.impl, o.tablename), NoName) >>
       \o LineStmts(o.alters) \o LineStmts(o.grants)
       \o << Simple("END", NoName, NoName) >>

definition(o) ==
    IF o.impl = "redshift" THEN definition_redshift(o) ELSE definition_legacy(o)

(***************************************************************************)
(* The database executing the script.  A session runs each statement in    *)
(* turn and stops at the first that fails.  Between BEGIN and END, and in   *)
(* a session without autocommit (psycopg2's default, committed by the      *)
(* caller as _execute_and_commit does), a failure rolls everything back;   *)
(* in an autocommit session a statement outside BEGIN..END is committed    *)
(* as it completes.                                                        *)
(***************************************************************************)

RowVals == {"r1", "r2"}
BagOf(f) == [r \in {x \in RowVals : f[x] > 0} |-> f[r]]
RowBags ==
    {BagOf(f) : f \in {g \in [RowVals -> 0..MaxRows] :
                           g["r1"] + g["r2"] <= MaxRows}}

Situations == {"ready", "no_table", "old_in_use", "new_in_use"}

ClauseValue(clauses, kw) ==
    LET hits == {i \in DOMAIN clauses : clauses[i].kw = kw}
    IN IF hits = {} THEN None ELSE Some(clauses[SetMin(hits)].v)

Table(rows, style, dkey, skey, owner, grants, cols) ==
    [rows |-> rows, style |-> style, dkey |-> dkey, skey |-> skey,
     owner |-> owner, grants |-> grants, cols |-> cols]

\* The table CREATE TABLE makes: empty, owned by the session's user.
NewTable(st) ==
    Table(EmptyBag, ClauseValue(st.clauses, "DISTSTYLE")[1],
          ClauseValue(st.clauses, "DISTKEY"),
          ClauseValue(st.clauses, "SORTKEY"), "session_user", {}, st.cols)

\* The tables after statement st ran on tables T, or its failure.
ExecOn(T, st) ==
    LET Ok(U) == [ok |-> TRUE, tables |-> U]
        Failed == [ok |-> FALSE, tables |-> T]
        has(n) == n \in DOMAIN T
    IN CASE st.op = "RENAME" ->
              IF has(st.t1) /\ ~has(st.t2)
              THEN Ok(Put(Drop(T, {st.t1}), st.t2, T[st.t1])) ELSE Failed
         [] st.op = "CREATE" ->
              IF ~has(st.t1) THEN Ok(Put(T, st.t1, NewTable(st))) ELSE Failed
         [] st.op = "INSERT SELECT" ->
              IF has(st.t1) /\ has(st.t2)
              THEN Ok([T EXCEPT ![st.t1].rows = @ (+) T[st.t2].rows])
              ELSE Failed
         [] st.op = "DROP" ->
              IF has(st.t1) THEN Ok(Drop(T, {st.t1})) ELSE Failed
         [] st.op = "ALTER OWNER" ->
              IF has(st.t1) THEN Ok([T EXCEPT ![st.t1].owner = st.who])
              ELSE Failed
         [] st.op = "ALTER ONLY" ->
              IF has(st.t1) THEN Ok(T) ELSE Failed
         [] st.op = "GRANT" ->
              IF has(st.t1)
              THEN Ok([T EXCEPT ![st.t1].grants = @ \cup {st.who}])
              ELSE Failed
         [] st.op = "REVOKE" ->
              IF has(st.t1)
              THEN Ok([T EXCEPT ![st.t1].grants = @ \ {st.who}])
              ELSE Failed
         [] OTHER -> Ok(T)

\* The database a script meets: the live table as the catalog describes it,
\* and possibly a table under one of the temporary names.
InitialTables(a, o, rows, situation) ==
    LET style == IF a.cat_style = None
                      \/ DISTSTYLES_BY_INDEX(a.cat_style[1]) = None
                 THEN "EVEN" ELSE DISTSTYLES_BY_INDEX(a.cat_style[1])[1]
        live == Table(rows, style, FirstColumn(a.cat_distkey),
                      FirstColumn(a.cat_sortkey), "alice", {"alice"},
                      <<"id", "ts">>)
        stray == Table(SetToBag({"r1"}), "EVEN", None, None, "alice", {},
                       <<"id">>)
        t == Name("", o.tablename)
    IN CASE situation = "ready" -> (t :> live)
         [] situation = "no_table" -> [x \in {} |-> live]
         [] situation = "old_in_use" ->
              (t :> live) @@ (oldtmp(o.impl, o.tablename) :> stray)
         [] OTHER ->
              (t :> live) @@ (newtmp(o.impl, o.tablename) :> stray)

NoDb == [tables |-> EmptyMap, snapshot |-> EmptyMap, committed |-> EmptyMap,
         intx |-> FALSE, autocommit |-> FALSE]

\* TableDefinitionStatement(conn, tablename, distkey, sortkey, diststyle,
\* owner), of either file.
TableDefinitionStatement ==
    /\ pc = "idle"
    /\ \E impl \in Impls,
          distkey \in {None, Some(""), Some("id")},
          sortkey \in {None, Some("ts")},
          diststyle \in {None, Some("EVEN"), Some("KEY"), Some("ALL"),
                         Some("even")},
          owner \in {None, Some("bob")},
          dump \in {None} \cup {Some(d) : d \in Dumps("events")},
          cat_distkey \in {<<>>, <<"uid">>},
          cat_sortkey \in {<<>>, <<"at">>},
          cat_style \in {None, Some(0), Some(1), Some(8)} :
        LET a == [impl |-> impl, tablename |-> "events",
                  distkey |-> distkey, sortkey |-> sortkey,
                  diststyle |-> diststyle, owner |-> owner, dump |-> dump,
                  cat_distkey |-> cat_distkey, cat_sortkey |-> cat_sortkey,
                  cat_style |-> cat_style]
            r == TableDefinitionStatement_init(a)
        IN /\ args' = Some(a)
           /\ IF r.err = ""
              THEN tds' = Some(r.obj) /\ pc' = "constructed" /\ NoRaise
              ELSE tds' = None /\ pc' = "construct_failed" /\ Raise(r.err)
    /\ UNCHANGED <<num_data, slices, clean_up_s3, clean_up_local, jsonpaths,
                   chunk_range_start, chunk_range_end, chunk_files_bound,
                   chunk_files, disk, rm_idx, up_idx, s3_sweep, bucket,
                   manifest, events, script, sp, db, db0>>

\* The local list create_lines of definition() when the method returns: the
\* first line names the new table by its placeholder and the DISTSTYLE,
\* DISTKEY and SORTKEY lines are appended.
edited_create_lines(o) ==
    LET l0 == << [o.create_lines[1] EXCEPT !.table = "{newtmp}"] >>
              \o SubSeq(o.create_lines, 2, Len(o.create_lines))
        l1 == Append(l0, Line(") DISTSTYLE ", "", o.diststyle))
        l2 == IF Truthy(o.distkey)
              THEN Append(l1, Line("  DISTKEY", "", o.distkey[1])) ELSE l1
    IN IF Truthy(o.sortkey)
       THEN Append(l2, Line("  SORTKEY", "", o.sortkey[1])) ELSE l2

\* self.create_lines when definition() returns. The method edits
\* create_lines = self.create_lines[:], a copy, so the attribute keeps the
\* lines it had; edited in place it would hold the edited lines.
create_lines_afterInPlace(o) == edited_create_lines(o)
create_lines_after(o) == o.create_lines

\* The object when definition() returns: no other attribute is assigned.
self_after_definition(o) ==
    [o EXCEPT !.create_lines = create_lines_after(o)]

\* tds.definition(): it returns the script; it may be called again, which
\* pc records.
Definition ==
    /\ pc \in {"constructed", "have_script", "called_again"}
    /\ script' = definition(tds[1])
    /\ tds' = Some(self_after_definition(tds[1]))
    /\ pc' = IF pc = "constructed" THEN "have_script" ELSE "called_again"
    /\ UNCHANGED <<loadVars, args, sp, db, db0>>

\* A session starts to execute the script on some database.
BeginExecute ==
    /\ pc \in {"have_script", "called_again"}
    /\ \E rows \in RowBags, situation \in Situations, auto \in BOOLEAN :
        LET T == InitialTables(args[1], tds[1], rows, situation)
        IN /\ db0' = T
           /\ db' = [tables |-> T, snapshot |-> T, committed |-> T,
                     intx |-> FALSE, autocommit |-> auto]
    /\ sp' = 1
    /\ pc' = "executing"
    /\ UNCHANGED <<loadVars, args, tds, script>>

\* The session after a failure: what was not committed is rolled back.
RolledBack(d) == [d EXCEPT !.tables = d.committed, !.intx = FALSE]

\* The session after statement st succeeded with tables U; last tells that
\* the script is over, when the caller of a session without autocommit
\* commits.
Advanced(d, st, U, last) ==
    LET intx == IF st.op = "BEGIN" THEN TRUE
                ELSE IF st.op = "END" THEN FALSE ELSE d.intx
        commits == \/ st.op = "END"
                   \/ ~intx /\ d.autocommit
                   \/ ~intx /\ last
    IN [d EXCEPT !.tables = U,
                 !.intx = intx,
                 !.snapshot = IF st.op = "BEGIN" THEN d.tables ELSE @,
                 !.committed = IF commits THEN U ELSE @]

\* The next statement of the script runs: it succeeds, fails by its own
\* precondition, or fails for a reason outside the script.
ExecStatement ==
    /\ pc = "executing"
    /\ sp <= Len(script)
    /\ LET st == script[sp]
           r == ExecOn(db.tables, st)
       IN \/ /\ r.ok
             /\ db' = Advanced(db, st, r.tables, sp = Len(script))
             /\ sp' = sp + 1
             /\ pc' = IF sp = Len(script) THEN "script_done" ELSE "executing"
             /\ NoRaise
          \/ /\ db' = RolledBack(db)
             /\ pc' = "script_failed"
             /\ Raise("ProgrammingError")
             /\ UNCHANGED sp
    /\ UNCHANGED <<num_data, slices, clean_up_s3, clean_up_local, jsonpaths,
                   chunk_range_start, chunk_range_end, chunk_files_bound,
                   chunk_files, disk, rm_idx, up_idx, s3_sweep, bucket,
                   manifest, events, args, tds, script, db0>>

RebuildNext ==
    \/ TableDefinitionStatement
    \/ Definition
    \/ BeginExecute
    \/ ExecStatement

Init ==
    /\ pc = "idle"
    /\ num_data = 0
    /\ slices = 1
    /\ clean_up_s3 = TRUE
    /\ clean_up_local = TRUE
    /\ jsonpaths = None
    /\ chunk_range_start = <<>>
    /\ chunk_range_end = <<>>
    /\ chunk_files_bound = FALSE
    /\ chunk_files = <<>>
    /\ disk = EmptyMap
    /\ rm_idx = 0
    /\ up_idx = 0
    /\ s3_sweep = <<>>
    /\ bucket = EmptyMap
    /\ manifest = <<>>
    /\ exc = ""
    /\ raised = <<>>
    /\ events = <<>>
    /\ args = None
    /\ tds = None
    /\ script = <<>>
    /\ sp = 0
    /\ db = NoDb
    /\ db0 = EmptyMap

Next == LoadNext \/ RebuildNext

Spec == Init /\ [][Next]_vars

\* The two halves share no state: each is also checked on its own.
LoadSpec == Init /\ [][LoadNext]_vars
RebuildSpec == Init /\ [][RebuildNext]_vars

(***************************************************************************)
(* Properties of the load.                                                 *)
(***************************************************************************)

\* The keys this run has written to the bucket so far.
Written == {e.key : e \in {x \in Range(events) : x.ev = "put"}}

\* The chunk keys written so far.
UploadedChunks == {k \in Written : k[1] = "gz"}

\* The run is past the finally block of chunk_json_slices.
PastChunkFinally == pc \in {"copy", "s3_finally", "returned", "raised"}

\* The staging loop has run to its end and the chunks are with the caller.
Staged == pc \in {"upload", "manifest", "jsonpaths"}

StagingErrors ==
    {"measure", "mkdir", "stage_open", "stage_write", "stage_close"}
UploadErrors == {"upload_open", "upload", "manifest", "jsonpaths"}

\* C1: for N >= 0 records and S >= 1 slices chunk_json_slices makes exactly
\* S partitions; partition i (from 0) starts at floor(i*N/S), the first at
\* 0, starts never decrease, each partition ends where the next starts, the
\* last is open-ended and so runs to N, every record index lies in exactly
\* one partition, and the S staged files hold these partitions in order.
C1_PartitionsTile ==
    chunk_range_start # <<>> =>
        LET z == range_zipper(chunk_range_start, chunk_range_end)
            N == num_data
            S == slices
            part(i) == sliced(Data(N), z[i])
        IN /\ Len(z) = S
           /\ z[1].inclusive = 0
           /\ \A i \in 1..S : z[i].inclusive = ((i - 1) * N) \div S
           /\ \A i \in 1..(S - 1) :
                /\ z[i].inclusive <= z[i + 1].inclusive
                /\ z[i].exclusive = Some(z[i + 1].inclusive)
           /\ z[S].exclusive = None
           /\ \A i \in 1..S :
                part(i) = [j \in 1..((IF i = S THEN N ELSE z[i + 1].inclusive)
                                     - z[i].inclusive)
                               |-> z[i].inclusive + j]
           /\ \A r \in 1..N :
                Cardinality({i \in 1..S : r \in Range(part(i))}) = 1
           /\ Staged =>
                /\ chunk_files = [i \in 1..S |-> i - 1]
                /\ \A i \in 1..S : disk[i - 1] = part(i)

\* C1 witness: 2 records in 3 slices (N < S, S does not divide N) are
\* staged: one empty chunk and two of one record.
C1_Witness ==
    /\ pc = "upload"
    /\ num_data = 2
    /\ slices = 3
    /\ disk = (0 :> <<>> @@ 1 :> <<1>> @@ 2 :> <<2>>)

\* C2: with clean_on_exit true, when chunk_json_slices exits on an error
\* raised while staging (and every removal it attempted succeeded), no chunk
\* file of this call is left on disk.
C2_NoChunkFileLeftAfterStagingError ==
    ( /\ PastChunkFinally
      /\ clean_up_local
      /\ OrigExc \in StagingErrors
      /\ "remove" \notin Range(raised) )
    => DOMAIN disk = {}

C4_SweepHoldsOnlyWrittenKeys ==
    \A i \in DOMAIN s3_sweep : s3_sweep[i] \in Written

\* C5: the manifest object is written only after all S chunks were
\* uploaded; it lists one mandatory entry per chunk in index order; every
\* object a manifest in the bucket references is in the bucket; and the
\* manifest in progress always has one entry per chunk uploaded so far.
C5_ManifestAfterAllUploads ==
    /\ kpath("manifest") \in Written =>
         /\ UploadedChunks = {data_keypath(i) : i \in 0..(slices - 1)}
         /\ manifest = [i \in 1..slices |->
                          [url |-> data_keypath(i - 1), mandatory |-> TRUE]]
    /\ kpath("manifest") \in DOMAIN bucket =>
         /\ bucket[kpath("manifest")] = manifest
         /\ \A i \in DOMAIN manifest : manifest[i].url \in DOMAIN bucket
    /\ Len(manifest) = Cardinality(UploadedChunks)
    /\ \A i \in DOMAIN manifest :
         manifest[i] = [url |-> data_keypath(i - 1), mandatory |-> TRUE]

\* C5 witness: the manifest of a three-chunk load is in the bucket.
C5_Witness ==
    /\ pc = "jsonpaths"
    /\ slices = 3
    /\ kpath("manifest") \in DOMAIN bucket
    /\ Len(bucket[kpath("manifest")]) = 3

LiveName == Name("", tds[1].tablename)
OldName == oldtmp(tds[1].impl, tds[1].tablename)
NewName == newtmp(tds[1].impl, tds[1].tablename)

\* The CREATE statements of the script.
Creates == {i \in DOMAIN script : script[i].op = "CREATE"}

\* C6: the script of definition() starts with a transaction-begin marker
\* and ends with a transaction-end marker, with no marker in between, so
\* that when a statement of the script fails the database is committed as
\* it was before the script.
C6_ScriptIsOneTransaction ==
    /\ script # <<>> =>
         /\ script[1].op = "BEGIN"
         /\ script[Len(script)].op = "END"
         /\ \A i \in 2..(Len(script) - 1) : script[i].op \notin {"BEGIN", "END"}
    /\ pc = "script_failed" => db.committed = db0

\* C7: when the script has run to its end on a database that held the
\* table and no table under either temporary name, the table under the
\* original name holds the rows it held before, as a multiset, has the
\* distribution style of the definition, neither temporary name is left,
\* and all of this is committed.
C7_RebuildKeepsRows ==
    ( /\ pc = "script_done"
      /\ LiveName \in DOMAIN db0
      /\ OldName \notin DOMAIN db0
      /\ NewName \notin DOMAIN db0 )
    => /\ LiveName \in DOMAIN db.tables
       /\ db.tables[LiveName].rows = db0[LiveName].rows
       /\ db.tables[LiveName].style = tds[1].diststyle
       /\ OldName \notin DOMAIN db.tables
       /\ NewName \notin DOMAIN db.tables
       /\ db.committed = db.tables

\* C7 witness: the redshift.py script rebuilt a table of two equal rows
\* from EVEN to ALL.
C7_Witness ==
    /\ pc = "script_done"
    /\ tds[1].impl = "redshift"
    /\ db0[LiveName].rows = ("r1" :> 2)
    /\ db0[LiveName].style = "EVEN"
    /\ db.tables[LiveName].rows = ("r1" :> 2)
    /\ db.tables[LiveName].style = "ALL"
    /\ DOMAIN db.tables = {LiveName}

\* C8: a constructed object has a distkey only if its diststyle is KEY;
\* with the style EVEN or ALL (in any case of letters) the distkey is
\* unset, wherever it came from, and the script has no DISTKEY clause.
C8_DistkeyOnlyWithKeyStyle ==
    tds # None =>
        LET o == tds[1]
        IN /\ Truthy(o.distkey) => Upper(o.diststyle) = "KEY"
           /\ Upper(o.diststyle) \in {"EVEN", "ALL"} =>
                /\ o.distkey = None
                /\ \A i \in Creates :
                     ClauseValue(script[i].clauses, "DISTKEY") = None

\* C8 witness: the caller passed diststyle ALL and distkey id, the catalog
\* reported the key uid, and the script was made.
C8_Witness ==
    /\ pc = "have_script"
    /\ args[1].diststyle = Some("ALL")
    /\ args[1].distkey = Some("id")
    /\ args[1].cat_distkey = <<"uid">>
    /\ tds[1].diststyle = "ALL"
    /\ tds[1].distkey = None
    /\ Creates # {}

\* C9: a caller's distkey without a diststyle gives diststyle KEY and that
\* distkey, whatever the catalog reports, and the CREATE statement of the
\* script then has DISTSTYLE KEY followed by DISTKEY(that column).
C9_DistkeyAloneMeansKeyStyle ==
    ( /\ tds # None
      /\ Truthy(args[1].distkey)
      /\ ~Truthy(args[1].diststyle) )
    => /\ tds[1].diststyle = "KEY"
       /\ tds[1].distkey = args[1].distkey
       /\ \A i \in Creates :
            /\ Len(script[i].clauses) >= 2
            /\ script[i].clauses[1] = Clause("DISTSTYLE", "KEY")
            /\ script[i].clauses[2] = Clause("DISTKEY", args[1].distkey[1])

\* C9 witness: distkey id alone, on a table the catalog reports as ALL with
\* key uid; the script was made.
C9_Witness ==
    /\ pc = "have_script"
    /\ args[1].distkey = Some("id")
    /\ args[1].diststyle = None
    /\ args[1].cat_style = Some(8)
    /\ args[1].cat_distkey = <<"uid">>
    /\ tds[1].diststyle = "KEY"
    /\ tds[1].distkey = Some("id")
    /\ Creates # {}

(***************************************************************************)
(* Failures of the load and the order of its effects.                      *)
(***************************************************************************)

\* The number of objects the run has put to the bucket so far, one for
\* every call of set_contents_from_file that returned.
NumPuts ==
    LET IsPut(e) == e.ev = "put"
    IN Len(SelectSeq(events, IsPut))

\* The statements the run has sent to the database and its commits.
DbEvents == {e \in Range(events) : e.ev \in {"copy", "commit"}}

\* The first error of the run was raised by the upload of a chunk: up_idx
\* is the index k of that chunk.
ChunkUploadFailed == OrigExc \in {"upload_open", "upload"}

\* C11: when the upload of the k-th chunk fails, the bucket holds exactly
\* the chunks 0..k-1, each put once (no chunk of a higher index, no
\* manifest, no jsonpaths object, no retry), no COPY is executed and
\* nothing is committed, and the call ends by raising that upload error to
\* the caller.
C11_UploadFailureAborts ==
    ChunkUploadFailed =>
        /\ Written = {data_keypath(i) : i \in 0..(up_idx - 1)}
        /\ NumPuts = up_idx
        /\ DbEvents = {}
        /\ pc # "returned"
        /\ pc = "raised" => exc = OrigExc

(***************************************************************************)
(* Properties of the table definition and its script, continued.           *)
(***************************************************************************)

\* The pg_class lookup of the distribution style returned no row: the table
\* is absent from the catalog.
AbsentFromCatalog == args # None /\ args[1].cat_style = None

\* C12: constructing a TableDefinitionStatement for a table that is absent
\* from the catalog fails and yields no table definition, whatever
\* distkey, sortkey, diststyle and owner are passed.
C12_AbsentTableFailsConstruction ==
    AbsentFromCatalog => tds = None /\ pc = "construct_failed"

\* A step of definition(): a call on the constructed object that returns.
DefinitionStep ==
    /\ pc \in {"constructed", "have_script", "called_again"}
    /\ pc' \in {"have_script", "called_again"}

C14_JsonpathsGeneratedWhenNone ==
    kpath("jsonpaths") \in DOMAIN bucket =>
        /\ jsonpaths # None => bucket[kpath("jsonpaths")] = jsonpaths
        /\ jsonpaths = None /\ num_data > 0 =>
              bucket[kpath("jsonpaths")] = gen_jsonpaths(Data(num_data)[1])

\* C15: the script of definition() is, in this order: the search path, the
\* rename of the live table to the old temporary name, the CREATE of the
\* new temporary table, the INSERT ... SELECT from the old into the new, the
\* rename of the new to the original name, the DROP of the old, the
\* captured alters (the ownership alter for a new owner last), the captured
\* grants (the grant for a new owner last); the live table is renamed
\* before any table is created.
C15_StatementOrder ==
    script # <<>> =>
        LET rest == SubSeq(script, 7, Len(script))
            IsAlter(s) == s.op \in {"ALTER OWNER", "ALTER ONLY"}
            IsGrant(s) == s.op \in {"GRANT", "REVOKE"}
            alters == SelectSeq(rest, IsAlter)
            grants == SelectSeq(rest, IsGrant)
            t == tds[1].tablename
        IN /\ Len(script) >= 6
           /\ script[1].op = "SET search_path"
           /\ script[2] = Simple("RENAME", LiveName, OldName)
           /\ script[3].op = "CREATE"
           /\ script[3].t1 = NewName
           /\ script[4] = Simple("INSERT SELECT", NewName, OldName)
           /\ script[5] = Simple("RENAME", NewName, LiveName)
           /\ script[6] = Simple("DROP", OldName, NoName)
           /\ rest = alters \o grants
           /\ Truthy(args[1].owner) =>
                 /\ alters # <<>>
                 /\ alters[Len(alters)] =
                        LineStmt(OwnerAlter(t, args[1].owner[1]))
                 /\ grants # <<>>
                 /\ grants[Len(grants)] =
                        LineStmt(OwnerGrant(t, args[1].owner[1]))
           /\ \A i \in Creates : \E j \in 1..(i - 1) :
                 script[j] = Simple("RENAME", LiveName, OldName)

\* The positions in the history of the COPY statements executed, and the
\* keys put before position i.
CopyAt == {i \in DOMAIN events : events[i].ev = "copy"}
PutBefore(i) ==
    {events[j].key : j \in {x \in 1..(i - 1) : events[x].ev = "put"}}

\* The objects a complete upload consists of: S chunks, manifest, jsonpaths.
AllObjects ==
    {data_keypath(i) : i \in 0..(slices - 1)}
        \cup {kpath("manifest"), kpath("jsonpaths")}

\* C16: the COPY statement is executed at most once, and only after the S
\* chunks, the manifest and the jsonpaths object were uploaded; a commit
\* follows a COPY that succeeded; and the objects of the run are deleted
\* from the bucket only after the COPY or after a failure: until then the
\* bucket holds every object written, and no error was raised before a
\* COPY that was executed.
C16_CopyAfterUploadsThenCommitThenDelete ==
    /\ Cardinality(CopyAt) <= 1
    /\ \A i \in CopyAt :
          /\ PutBefore(i) = AllObjects
          /\ OrigExc \in {"", "commit", "delete_keys"}
    /\ \A i \in DOMAIN events :
          events[i].ev = "commit" => i > 1 /\ events[i - 1].ev = "copy"
    /\ \A i \in DOMAIN events :
          events[i].ev = "delete_keys" =>
              (\E j \in CopyAt : j < i) \/ raised # <<>>
    /\ CopyAt = {} /\ raised = <<>> => Written \subseteq DOMAIN bucket
    /\ pc = "copy" => AllObjects \subseteq DOMAIN bucket

\* C16 witness: a load of three slices that returned: the five objects were
\* put, then the COPY was executed and committed, then the keys deleted.
C16_Witness ==
    /\ pc = "returned"
    /\ slices = 3
    /\ clean_up_s3
    /\ Len(events) = 8
    /\ PutBefore(6) = AllObjects
    /\ events[6].ev = "copy"
    /\ events[7].ev = "commit"
    /\ events[8].ev = "delete_keys"
    /\ bucket = EmptyMap

\* The errors of the stages of the load, and those of the cleanup steps.
StageErrors == StagingErrors \cup UploadErrors \cup {"execute", "commit"}
CleanupErrors == {"remove", "delete_keys"}

\* A stage failed first and a cleanup step failed during the unwinding.
DoubleFault ==
    /\ OrigExc \in StageErrors
    /\ Range(raised) \cap CleanupErrors # {}

\* C17: when a stage fails and a cleanup step fails during the unwinding,
\* the caller gets the error of the stage, and the cleanup steps after the
\* failed one still run: the chunk files after the one that could not be
\* removed are removed, and the swept keys are deleted (or their deletion
\* was tried) when clean_up_s3 is set.
C17_CleanupFailureIsNonFatal ==
    pc = "raised" /\ DoubleFault =>
        /\ exc = OrigExc
        /\ "remove" \in Range(raised) =>
              \A i \in (rm_idx + 2)..Len(chunk_files) :
                  chunk_files[i] \notin DOMAIN disk
        /\ clean_up_s3 =>
              \/ "delete_keys" \in Range(raised)
              \/ Written \cap DOMAIN bucket = {}

====
